---- MODULE Spec2Model ----
(***************************************************************************)
(* Model of the LPC17xx SSP/SPI master driver, drivers/spi/spi_lpc17xx.c.  *)
(*                                                                         *)
(* Five specifications share the definitions below:                        *)
(*   SpecSolver       - set_frequency applied to requested frequencies;    *)
(*   SpecConfigure    - spi_lpc17xx_configure called repeatedly on a       *)
(*                      device;                                            *)
(*   SpecTransfer     - one thread calling transceive and release against  *)
(*                      an SSP peripheral whose shifter runs concurrently; *)
(*   SpecTransferFair - SpecTransfer with a caller that keeps running and  *)
(*                      a shifter that keeps shifting;                     *)
(*   Spec             - two threads calling transceive and release.        *)
(***************************************************************************)
EXTENDS Integers, Sequences, FiniteSets, TLC

VARIABLES
    freq,       \* SpecSolver: the frequency last handed to set_frequency
    solved,     \* SpecSolver: the register image set_frequency produced
    ctx_config, \* data->ctx.config: the configuration recorded on the context
    data_regs,  \* data->regs: the cached RegisterImage
    hw,         \* the peripheral's CR0, CR1 and CPSR registers
    lastCall,   \* SpecConfigure: observation of the most recent configure call
    pc,         \* each caller's position in transceive or release
    arg,        \* each caller's arguments: config, tx and rx buffer lengths
    err,        \* each caller's local variable err
    eff,        \* what the transceive call that last took the lock has done
    rxmem,      \* each caller's receive buffer memory
    sem,        \* ctx->lock: the count of the context's semaphore
    ctx,        \* the buffer cursors of the context
    cs_active,  \* the chip-select line is asserted
    txfifo,     \* the peripheral's transmit FIFO
    shifter,    \* the frame being shifted out and in, if any
    rxfifo,     \* the peripheral's receive FIFO
    ror,        \* the peripheral's receive-overrun raw interrupt status
    forced,     \* release has unlocked the context while a transceive held it
    quota       \* calls each caller may still make; below 0 for no limit

devvars == <<ctx_config, data_regs, hw>>
xfervars == <<pc, arg, err, eff, rxmem, sem, ctx, cs_active, txfifo,
              shifter, rxfifo, ror, forced, quota>>
vars == <<freq, solved, devvars, lastCall, xfervars>>

(***************************************************************************)
(* Bounds of the model.                                                    *)
(***************************************************************************)
\* Requested frequencies probed by SpecSolver: SPI_PCLK \div (ProbeStep * k),
\* k in 1..MaxProbe, each with its two neighbours.
ProbeStep == 74
MaxProbe == 40

\* The longest transmit or receive buffer a caller passes.
MaxLen == 3

\* The depth of the peripheral's transmit and receive FIFOs, in frames.
FIFO_DEPTH == 2

\* The length of the transmit buffer passed by the concurrent callers of
\* Spec, when they pass one, and the number of calls each of them makes.
ConcLen == 1
MaxCalls == 2

(***************************************************************************)
(* Program constants.                                                      *)
(***************************************************************************)
\* SPI_PCLK is CONFIG_SYS_CRYSTAL_FREQ / 4 (line 34); the LPC1768 runs the
\* core at 100 MHz, which gives a 25 MHz peripheral clock.
SPI_PCLK == 25000000

\* The smallest and largest prescaler and the loop limit of j (lines 125-126),
\* and the fallback divisors (lines 136, 139).
CPSR_MIN == 2
CPSR_MAX == 254
SCR_LIMIT == 256
CPSR_DEFAULT == 254
SCR_DEFAULT == 255

(***************************************************************************)
(* Register access layer.                                                  *)
(***************************************************************************)
\* reg & (mask << shift), for a mask of the form 2^w - 1 (every mask the
\* driver uses: 0x1, 0x3, 0xF, 0xFF).
Field(reg, mask, shift) == ((reg \div 2^shift) % (mask + 1)) * 2^shift

\* temp &= ~(mask << shift); temp |= (data & mask) << shift
sys_set_bits(reg, mask, shift, data) ==
    (reg - Field(reg, mask, shift)) + (data % (mask + 1)) * 2^shift

sys_set_bit(reg, bit) == (reg - Field(reg, 1, bit)) + 2^bit

sys_clear_bit(reg, bit) == reg - Field(reg, 1, bit)

sys_test_bit(reg, bit) == Field(reg, 1, bit) # 0

\* spi_config_regs regs = {0}
ZeroRegs == [cr0 |-> 0, cr1 |-> 0, cpsr |-> 0]

(***************************************************************************)
(* Clock divisor solver: set_frequency.                                    *)
(***************************************************************************)
\* The test of line 127 with > for >=.
DivisorFits_Strict(f, i, j) == f > SPI_PCLK \div (i * j)

\* The test of line 127.
DivisorFits(f, i, j) == f >= SPI_PCLK \div (i * j)

\* for (j = lo; j <= hi; j++) if (DivisorFits) return: the first j of lo..hi,
\* in ascending order, that passes the test, or SCR_LIMIT when none does.  The
\* range is scanned in two halves, the lower half first, only to keep the
\* depth of the evaluation logarithmic; the test is applied to lo, lo+1, ...
\* and to nothing after the first j that passes.
RECURSIVE ScanJ(_, _, _, _)
ScanJ(f, i, lo, hi) ==
    IF lo > hi THEN SCR_LIMIT
    ELSE IF lo = hi THEN (IF DivisorFits(f, i, lo) THEN lo ELSE SCR_LIMIT)
    ELSE LET mid == (lo + hi) \div 2
             first == ScanJ(f, i, lo, mid)
         IN  IF first < SCR_LIMIT THEN first ELSE ScanJ(f, i, mid + 1, hi)

\* for (i = 2; i <= 254; i += 2) for (j = 1; j < 256; j++): the first
\* <<i, j>> at which the inner loop returns, with i = 2 * k for k in lo..hi
\* ascending, or <<0, 0>> when the loops run to their end.
RECURSIVE ScanI(_, _, _)
ScanI(f, lo, hi) ==
    IF lo > hi THEN <<0, 0>>
    ELSE IF lo = hi
    THEN LET j == ScanJ(f, CPSR_MIN * lo, 1, SCR_LIMIT - 1)
         IN  IF j < SCR_LIMIT THEN <<CPSR_MIN * lo, j>> ELSE <<0, 0>>
    ELSE LET mid == (lo + hi) \div 2
             first == ScanI(f, lo, mid)
         IN  IF first[1] # 0 THEN first ELSE ScanI(f, mid + 1, hi)

\* set_frequency writing j where it writes j - 1.
set_frequency_ScrOffByOne(f, regs) ==
    LET found == ScanI(f, 1, CPSR_MAX \div CPSR_MIN)
    IN  IF found[1] # 0
        THEN [regs EXCEPT !.cpsr = sys_set_bits(@, 255, 0, found[1]),
                          !.cr0 = sys_set_bits(@, 255, 8, found[2])]
        ELSE [regs EXCEPT !.cpsr = sys_set_bits(@, 255, 0, CPSR_DEFAULT),
                          !.cr0 = sys_set_bits(@, 255, 8, SCR_DEFAULT)]

set_frequency(f, regs) ==
    LET found == ScanI(f, 1, CPSR_MAX \div CPSR_MIN)
    IN  IF found[1] # 0
        THEN [regs EXCEPT !.cpsr = sys_set_bits(@, 255, 0, found[1]),
                          !.cr0 = sys_set_bits(@, 255, 8, found[2] - 1)]
        ELSE [regs EXCEPT !.cpsr = sys_set_bits(@, 255, 0, CPSR_DEFAULT),
                          !.cr0 = sys_set_bits(@, 255, 8, SCR_DEFAULT)]

\* The DivisorPair held by a register image.
Prescaler(regs) == Field(regs.cpsr, 255, 0)
SerialClockRate(regs) == Field(regs.cr0, 255, 8) \div 2^8

(***************************************************************************)
(* Configuration translator: spi_lpc17xx_configure.                        *)
(***************************************************************************)
\* struct spi_config, by the fields the driver reads.
ConfigFreqs == {SPI_PCLK, SPI_PCLK + 1, SPI_PCLK \div 25}

AllConfigs ==
    [mode : {"master", "slave"}, cpol : BOOLEAN, cpha : BOOLEAN,
     loop : BOOLEAN, word_size : {8, 16}, frequency : ConfigFreqs]

\* ctx->config before the first successful configure: a null pointer.
NoConfig == [mode |-> "NULL"]

\* spi_context_configured: is config the one recorded on the context?
spi_context_configured(ctxcfg, config) == ctxcfg = config

\* The image lines 161-190 build for a master, 8-bit configuration, up to the
\* word-size check.
ImageBeforeWordSize(config) ==
    LET r0 == [ZeroRegs EXCEPT !.cr1 = sys_clear_bit(@, 2)]
        r1 == [r0 EXCEPT !.cr0 = sys_set_bits(@, 3, 4, 0)]
        r2 == IF config.cpol THEN [r1 EXCEPT !.cr0 = sys_set_bit(@, 6)] ELSE r1
        r3 == IF config.cpha THEN [r2 EXCEPT !.cr0 = sys_set_bit(@, 7)] ELSE r2
    IN  IF config.loop THEN [r3 EXCEPT !.cr1 = sys_set_bit(@, 0)] ELSE r3

BuildImage(config) ==
    LET r == ImageBeforeWordSize(config)
    IN  set_frequency(config.frequency,
                      [r EXCEPT !.cr0 = sys_set_bits(@, 15, 0, 7)])

\* The outcome of one configure call on a device whose context records
\* ctxcfg, whose cache is cache and whose registers are hwregs:
\*   err, kind    the value returned and the return statement that gave it
\*   writes       the registers written, in order
\*   cs_configure whether spi_context_cs_configure ran
ConfigureUnchanged(e, kind, ctxcfg, cache, hwregs) ==
    [err |-> e, kind |-> kind, ctx_config |-> ctxcfg, data_regs |-> cache,
     hw |-> hwregs, writes |-> <<>>, cs_configure |-> FALSE]

\* Lines 192-207 without the write of the prescale register.
ConfigureApply_SkipPrescale(config, cache, hwregs) ==
    LET regs == BuildImage(config)
        differ == regs # cache
    IN  [err |-> "0", kind |-> "Ok", ctx_config |-> config,
         data_regs |-> IF differ THEN regs ELSE cache,
         hw |-> IF differ
                THEN [hwregs EXCEPT !.cr0 = regs.cr0, !.cr1 = regs.cr1]
                ELSE hwregs,
         writes |-> IF differ THEN <<"cr0", "cr1">> ELSE <<>>,
         cs_configure |-> TRUE]

\* Lines 192-207 without the memcpy of line 199.
ConfigureApply_NoMemcpy(config, cache, hwregs) ==
    LET regs == BuildImage(config)
        differ == regs # cache
    IN  [err |-> "0", kind |-> "Ok", ctx_config |-> config,
         data_regs |-> cache,
         hw |-> IF differ
                THEN [hwregs EXCEPT !.cr0 = regs.cr0, !.cr1 = regs.cr1,
                                    !.cpsr = regs.cpsr]
                ELSE hwregs,
         writes |-> IF differ THEN <<"cr0", "cr1", "cpsr">> ELSE <<>>,
         cs_configure |-> TRUE]

\* Lines 186-207: the image is completed, written if it differs from the
\* cache, and the configuration recorded on the context.
ConfigureApply(config, cache, hwregs) ==
    LET regs == BuildImage(config)
        differ == regs # cache
    IN  [err |-> "0", kind |-> "Ok", ctx_config |-> config,
         data_regs |-> IF differ THEN regs ELSE cache,
         hw |-> IF differ
                THEN [hwregs EXCEPT !.cr0 = regs.cr0, !.cr1 = regs.cr1,
                                    !.cpsr = regs.cpsr]
                ELSE hwregs,
         writes |-> IF differ THEN <<"cr0", "cr1", "cpsr">> ELSE <<>>,
         cs_configure |-> TRUE]

\* configure with the word-size check after the registers are written.
spi_lpc17xx_configure_LateWordSize(config, ctxcfg, cache, hwregs) ==
    IF spi_context_configured(ctxcfg, config)
    THEN ConfigureUnchanged("0", "Ok", ctxcfg, cache, hwregs)
    ELSE IF config.mode # "master"
    THEN ConfigureUnchanged("-ENOTSUP", "UnsupportedMode", ctxcfg, cache, hwregs)
    ELSE IF config.word_size # 8
    THEN [ConfigureApply(config, cache, hwregs) EXCEPT
              !.err = "-ENOTSUP", !.kind = "UnsupportedWordSize",
              !.ctx_config = ctxcfg, !.cs_configure = FALSE]
    ELSE ConfigureApply(config, cache, hwregs)

\* configure with the word-size check before the mode check.
spi_lpc17xx_configure_WordSizeFirst(config, ctxcfg, cache, hwregs) ==
    IF spi_context_configured(ctxcfg, config)
    THEN ConfigureUnchanged("0", "Ok", ctxcfg, cache, hwregs)
    ELSE IF config.word_size # 8
    THEN ConfigureUnchanged("-ENOTSUP", "UnsupportedWordSize", ctxcfg, cache,
                            hwregs)
    ELSE IF config.mode # "master"
    THEN ConfigureUnchanged("-ENOTSUP", "UnsupportedMode", ctxcfg, cache, hwregs)
    ELSE ConfigureApply(config, cache, hwregs)

spi_lpc17xx_configure(config, ctxcfg, cache, hwregs) ==
    IF spi_context_configured(ctxcfg, config)
    THEN ConfigureUnchanged("0", "Ok", ctxcfg, cache, hwregs)
    ELSE IF config.mode # "master"
    THEN ConfigureUnchanged("-ENOTSUP", "UnsupportedMode", ctxcfg, cache, hwregs)
    ELSE IF config.word_size # 8
    THEN ConfigureUnchanged("-ENOTSUP", "UnsupportedWordSize", ctxcfg, cache,
                            hwregs)
    ELSE ConfigureApply(config, cache, hwregs)

\* What is observed of a configure call: its argument and outcome, whether the
\* context recorded no configuration when it began (unconfigured), and
\* whether it repeats, with the same argument, a successful call that began
\* on an unconfigured device (repeat).
NoCall == [config |-> NoConfig, err |-> "0", kind |-> "None", writes |-> <<>>,
           cs_configure |-> FALSE, unconfigured |-> FALSE, repeat |-> FALSE]

(***************************************************************************)
(* The transfer context: lock, buffer cursors, chip-select.                *)
(***************************************************************************)
Callers == {"t1", "t2"}

\* The k-th byte of a caller's transmit buffer.  The bytes are distinct and
\* non-zero, so that each is told from the others and from the 0 that
\* push_data writes once the transmit buffer is used up.
TxByte(k) == k

\* A receive buffer byte transceive has not written.
Unwritten == 0 - 1

\* Cursors with nothing to send or receive: tx_buf and rx_buf are 0 for a
\* null pointer, or else the index of the next byte; rx_owner is the caller
\* whose receive buffer rx_buf points into.
NoCursors ==
    [tx_buf |-> 0, tx_len |-> 0, rx_buf |-> 0, rx_len |-> 0, rx_owner |-> "none"]

\* spi_context_buffers_setup for one transmit buffer of tx bytes and one
\* receive buffer of rx bytes; a length of 0 is a buffer set that is absent.
spi_context_buffers_setup(t, tx, rx) ==
    [tx_buf |-> IF tx > 0 THEN 1 ELSE 0, tx_len |-> tx,
     rx_buf |-> IF rx > 0 THEN 1 ELSE 0, rx_len |-> rx,
     rx_owner |-> IF rx > 0 THEN t ELSE "none"]

spi_context_tx_on(c) == c.tx_len > 0
spi_context_rx_on(c) == c.rx_len > 0
spi_context_tx_buf_on(c) == c.tx_buf # 0 /\ c.tx_len > 0
spi_context_rx_buf_on(c) == c.rx_buf # 0 /\ c.rx_len > 0

\* spi_context_update_tx(ctx, 1, 1) and spi_context_update_rx(ctx, 1, 1)
spi_context_update_tx(c) ==
    IF c.tx_len = 0 THEN c
    ELSE IF c.tx_len = 1 THEN [c EXCEPT !.tx_len = 0, !.tx_buf = 0]
    ELSE [c EXCEPT !.tx_len = @ - 1,
                   !.tx_buf = IF @ # 0 THEN @ + 1 ELSE 0]

spi_context_update_rx(c) ==
    IF c.rx_len = 0 THEN c
    ELSE IF c.rx_len = 1
    THEN [c EXCEPT !.rx_len = 0, !.rx_buf = 0, !.rx_owner = "none"]
    ELSE [c EXCEPT !.rx_len = @ - 1,
                   !.rx_buf = IF @ # 0 THEN @ + 1 ELSE 0]

(***************************************************************************)
(* The SSP peripheral: status register bits and the shifter.               *)
(***************************************************************************)
\* Status register: bit 1 TNF, bit 2 RNE, bit 3 RFF, bit 4 BSY.
TNF == Len(txfifo) < FIFO_DEPTH
RNE == Len(rxfifo) > 0
RFF == Len(rxfifo) >= FIFO_DEPTH
BSY == Len(txfifo) > 0 \/ Len(shifter) > 0

\* CR1 bit 1: the SSP is enabled.
SSE == sys_test_bit(hw.cr1, 1)

\* The enabled peripheral takes the next frame of the transmit FIFO.
HwStartFrame ==
    /\ SSE
    /\ shifter = <<>>
    /\ txfifo # <<>>
    /\ shifter' = <<Head(txfifo)>>
    /\ txfifo' = Tail(txfifo)
    /\ UNCHANGED <<quota, freq, solved, devvars, lastCall, pc, arg, err, eff,
                   rxmem, sem, ctx, cs_active, rxfifo, ror, forced>>

\* A frame has been shifted: the frame received with it, which the bus echoes
\* from the one sent, enters the receive FIFO, or is lost when that is full.
HwEndFrame ==
    /\ shifter # <<>>
    /\ shifter' = <<>>
    /\ IF Len(rxfifo) < FIFO_DEPTH
       THEN rxfifo' = Append(rxfifo, shifter[1]) /\ ror' = ror
       ELSE rxfifo' = rxfifo /\ ror' = TRUE
    /\ UNCHANGED <<quota, freq, solved, devvars, lastCall, pc, arg, err, eff,
                   rxmem, sem, ctx, cs_active, txfifo, forced>>

(***************************************************************************)
(* spi_lpc17xx_transceive, one action per step.                            *)
(***************************************************************************)
\* A caller's quota after one more call.
NoLimit == 0 - 1
Spend(q) == IF q > 0 THEN q - 1 ELSE q

NoArg == [config |-> NoConfig, tx |-> 0, rx |-> 0]

\* What a transceive call has done: bytes written to and read from the data
\* register by push_data and pull_data, cursors installed, chip-select
\* asserted, enable bit set, whether its last push_data was held back, and
\* whether its rx_buffer_flush found a frame to discard.
\* The counts stop at CountCap, which no single caller reaches on its own: a
\* call writes at most MaxLen bytes and then as many more as the FIFOs and
\* the shifter hold.
CountCap == MaxLen + 2 * FIFO_DEPTH + 2

Count(n) == IF n < CountCap THEN n + 1 ELSE n

NoEffects ==
    [writes |-> 0, reads |-> 0, setup |-> FALSE, cs |-> FALSE, sse |-> FALSE,
     held |-> "no", flushed |-> FALSE]

InitTransfer ==
    /\ pc = [t \in Callers |-> "idle"]
    /\ arg = [t \in Callers |-> NoArg]
    /\ err = [t \in Callers |-> "0"]
    /\ eff = NoEffects
    /\ rxmem = [t \in Callers |-> <<>>]
    /\ sem = 1
    /\ ctx = NoCursors
    /\ cs_active = FALSE
    /\ txfifo = <<>>
    /\ shifter = <<>>
    /\ rxfifo = <<>>
    /\ ror = FALSE
    /\ forced = FALSE

\* The positions of a transceive call between taking the lock and giving it.
HoldingLock ==
    {"sync", "flush", "configure", "setup", "cs", "enable", "push", "pull",
     "check", "done"}

hwvars == <<txfifo, shifter, rxfifo, ror>>

\* A caller enters transceive.
TransceiveCall(t, config, tx, rx) ==
    /\ pc[t] = "idle"
    /\ quota[t] # 0
    /\ quota' = [quota EXCEPT ![t] = Spend(@)]
    /\ pc' = [pc EXCEPT ![t] = "lock"]
    /\ arg' = [arg EXCEPT ![t] = [config |-> config, tx |-> tx, rx |-> rx]]
    /\ err' = [err EXCEPT ![t] = "0"]
    /\ rxmem' = [rxmem EXCEPT ![t] = [k \in 1..rx |-> Unwritten]]
    /\ UNCHANGED <<freq, solved, devvars, lastCall, eff, sem, ctx, cs_active,
                   hwvars, forced>>

\* spi_context_lock: k_sem_take(&ctx->lock, K_FOREVER) returns once the count
\* is above 0.
spi_context_lock(count) == count > 0

\* transceive without the call of spi_context_lock.
Lock_NoTake(t) ==
    /\ pc[t] = "lock"
    /\ pc' = [pc EXCEPT ![t] = "sync"]
    /\ eff' = NoEffects
    /\ UNCHANGED <<quota, freq, solved, devvars, lastCall, arg, err, rxmem,
                   sem, ctx, cs_active, hwvars, forced>>

Lock(t) ==
    /\ pc[t] = "lock"
    /\ spi_context_lock(sem)
    /\ sem' = sem - 1
    /\ pc' = [pc EXCEPT ![t] = "sync"]
    /\ eff' = NoEffects
    /\ UNCHANGED <<quota, freq, solved, devvars, lastCall, arg, err, rxmem,
                   ctx, cs_active, hwvars, forced>>

\* wait_for_sync: the loop ends when the busy flag reads 0.
WaitForSync(t) ==
    /\ pc[t] = "sync"
    /\ ~BSY
    /\ pc' = [pc EXCEPT ![t] = "flush"]
    /\ UNCHANGED <<quota, freq, solved, devvars, lastCall, arg, err, eff, rxmem,
                   sem, ctx, cs_active, hwvars, forced>>

\* rx_buffer_flush: one read of the data register while RNE is set ...
FlushRead(t) ==
    /\ pc[t] = "flush"
    /\ RNE
    /\ rxfifo' = Tail(rxfifo)
    /\ eff' = [eff EXCEPT !.flushed = TRUE]
    /\ UNCHANGED <<quota, freq, solved, devvars, lastCall, pc, arg, err,
                   rxmem, sem, ctx, cs_active, txfifo, shifter, ror, forced>>

\* transceive without rx_buffer_flush.
FlushDone_NoFlush(t) ==
    /\ pc[t] = "flush"
    /\ pc' = [pc EXCEPT ![t] = "configure"]
    /\ UNCHANGED <<quota, freq, solved, devvars, lastCall, arg, err, eff, rxmem,
                   sem, ctx, cs_active, hwvars, forced>>

\* ... and the end of the loop when it is clear.
FlushDone(t) ==
    /\ pc[t] = "flush"
    /\ ~RNE
    /\ pc' = [pc EXCEPT ![t] = "configure"]
    /\ UNCHANGED <<quota, freq, solved, devvars, lastCall, arg, err, eff, rxmem,
                   sem, ctx, cs_active, hwvars, forced>>

\* if (err != 0) return err;
AfterConfigure_ReturnEarly(e) == IF e # "0" THEN "idle" ELSE "setup"

\* err not tested.
AfterConfigure_Ignored(e) == "setup"

\* if (err != 0) goto done;
AfterConfigure(e) == IF e # "0" THEN "done" ELSE "setup"

Configure(t) ==
    /\ pc[t] = "configure"
    /\ LET out == spi_lpc17xx_configure(arg[t].config, ctx_config, data_regs,
                                        hw)
       IN  /\ ctx_config' = out.ctx_config
           /\ data_regs' = out.data_regs
           /\ hw' = out.hw
           /\ err' = [err EXCEPT ![t] = out.err]
           /\ pc' = [pc EXCEPT ![t] = AfterConfigure(out.err)]
    /\ UNCHANGED <<quota, freq, solved, lastCall, arg, eff, rxmem, sem, ctx,
                   cs_active, hwvars, forced>>

\* spi_context_buffers_setup(&data->ctx, tx_bufs, rx_bufs, 1)
BuffersSetup(t) ==
    /\ pc[t] = "setup"
    /\ ctx' = spi_context_buffers_setup(t, arg[t].tx, arg[t].rx)
    /\ eff' = [eff EXCEPT !.setup = TRUE]
    /\ pc' = [pc EXCEPT ![t] = "cs"]
    /\ UNCHANGED <<quota, freq, solved, devvars, lastCall, arg, err, rxmem, sem,
                   cs_active, hwvars, forced>>

\* spi_context_cs_control(&data->ctx, true)
CsAssert(t) ==
    /\ pc[t] = "cs"
    /\ cs_active' = TRUE
    /\ eff' = [eff EXCEPT !.cs = TRUE]
    /\ pc' = [pc EXCEPT ![t] = "enable"]
    /\ UNCHANGED <<quota, freq, solved, devvars, lastCall, arg, err, rxmem, sem,
                   ctx, hwvars, forced>>

\* transceive without the write of the enable bit.
Enable_NoSse(t) ==
    /\ pc[t] = "enable"
    /\ eff' = [eff EXCEPT !.sse = TRUE]
    /\ pc' = [pc EXCEPT ![t] = "push"]
    /\ UNCHANGED <<quota, freq, solved, devvars, lastCall, arg, err,
                   rxmem, sem, ctx, cs_active, hwvars, forced>>

\* sys_set_bit(SPI_REG_ADDR(baddr, SPI_CR1_OFFSET), 1)
Enable(t) ==
    /\ pc[t] = "enable"
    /\ hw' = [hw EXCEPT !.cr1 = sys_set_bit(@, 1)]
    /\ eff' = [eff EXCEPT !.sse = TRUE]
    /\ pc' = [pc EXCEPT ![t] = "push"]
    /\ UNCHANGED <<quota, freq, solved, ctx_config, data_regs, lastCall, arg, err,
                   rxmem, sem, ctx, cs_active, hwvars, forced>>

\* push_data without the test of the RX-FIFO-full bit.
PushWrites_NoRffHold == TNF

\* push_data: the byte it writes to the data register, if it writes one.
PushWrites == TNF /\ ~RFF

\* Why the last push_data wrote nothing: the test of line 103 failed ("TNF"),
\* or that of line 107 held it ("RFF"); "no" when it wrote.
PushHeld == IF ~TNF THEN "TNF" ELSE IF RFF THEN "RFF" ELSE "no"

PushValue == IF spi_context_tx_buf_on(ctx) THEN TxByte(ctx.tx_buf) ELSE 0

Push(t) ==
    /\ pc[t] = "push"
    /\ IF PushWrites
       THEN /\ txfifo' = Append(txfifo, PushValue)
            /\ ctx' = spi_context_update_tx(ctx)
            /\ eff' = [eff EXCEPT !.writes = Count(@), !.held = "no"]
       ELSE /\ eff' = [eff EXCEPT !.held = PushHeld]
            /\ UNCHANGED <<txfifo, ctx>>
    /\ pc' = [pc EXCEPT ![t] = "pull"]
    /\ UNCHANGED <<quota, freq, solved, devvars, lastCall, arg, err, rxmem, sem,
                   cs_active, shifter, rxfifo, ror, forced>>

\* pull_data storing every byte it reads, without the test of line 87: past
\* the end of the receive buffer the byte lands behind the buffer.
PullRead_AlwaysStore(t) ==
    /\ pc[t] = "pull"
    /\ RNE
    /\ rxfifo' = Tail(rxfifo)
    /\ rxmem' = IF spi_context_rx_buf_on(ctx)
                THEN [rxmem EXCEPT ![ctx.rx_owner][ctx.rx_buf] = Head(rxfifo)]
                ELSE [rxmem EXCEPT ![t] = Append(@, Head(rxfifo))]
    /\ ctx' = spi_context_update_rx(ctx)
    /\ eff' = [eff EXCEPT !.reads = Count(@)]
    /\ UNCHANGED <<quota, freq, solved, devvars, lastCall, pc, arg, err, sem,
                   cs_active, txfifo, shifter, ror, forced>>

\* pull_data: one turn of its loop while RNE is set ...
PullRead(t) ==
    /\ pc[t] = "pull"
    /\ RNE
    /\ rxfifo' = Tail(rxfifo)
    /\ rxmem' = IF spi_context_rx_buf_on(ctx)
                THEN [rxmem EXCEPT ![ctx.rx_owner][ctx.rx_buf] = Head(rxfifo)]
                ELSE rxmem
    /\ ctx' = spi_context_update_rx(ctx)
    /\ eff' = [eff EXCEPT !.reads = Count(@)]
    /\ UNCHANGED <<quota, freq, solved, devvars, lastCall, pc, arg, err, sem,
                   cs_active, txfifo, shifter, ror, forced>>

\* ... and its return when RNE is clear.
PullDone(t) ==
    /\ pc[t] = "pull"
    /\ ~RNE
    /\ pc' = [pc EXCEPT ![t] = "check"]
    /\ UNCHANGED <<quota, freq, solved, devvars, lastCall, arg, err, eff, rxmem,
                   sem, ctx, cs_active, hwvars, forced>>

\* spi_transfer_complete testing the transmit cursor only.
spi_transfer_complete_TxOnly == spi_context_tx_on(ctx)

\* while (spi_transfer_complete(dev)): the loop goes on while either cursor
\* has work left.
spi_transfer_complete == spi_context_tx_on(ctx) \/ spi_context_rx_on(ctx)

LoopCheck(t) ==
    /\ pc[t] = "check"
    /\ pc' = [pc EXCEPT ![t] = IF spi_transfer_complete THEN "push" ELSE "done"]
    /\ UNCHANGED <<quota, freq, solved, devvars, lastCall, arg, err, eff, rxmem,
                   sem, ctx, cs_active, hwvars, forced>>

\* done: spi_context_release(&data->ctx, err); return err;
\* k_sem_give on a semaphore whose limit is 1.
spi_context_release(count) == 1

\* The caller's frame is gone once it has returned: its arguments and the
\* record of the call are forgotten.  The caller keeps the value returned,
\* err, until its next call.
Done(t) ==
    /\ pc[t] = "done"
    /\ sem' = spi_context_release(sem)
    /\ pc' = [pc EXCEPT ![t] = "idle"]
    /\ arg' = [arg EXCEPT ![t] = NoArg]
    /\ rxmem' = [rxmem EXCEPT ![t] = <<>>]
    /\ eff' = NoEffects
    /\ UNCHANGED <<quota, freq, solved, devvars, lastCall, err, ctx, cs_active,
                   hwvars, forced>>

(***************************************************************************)
(* spi_lpc17xx_release.                                                    *)
(***************************************************************************)
ReleaseCall(t) ==
    /\ pc[t] = "idle"
    /\ quota[t] # 0
    /\ quota' = [quota EXCEPT ![t] = Spend(@)]
    /\ pc' = [pc EXCEPT ![t] = "rsync"]
    /\ UNCHANGED <<freq, solved, devvars, lastCall, arg, err, eff, rxmem, sem,
                   ctx, cs_active, hwvars, forced>>

\* release without wait_for_sync.
ReleaseSync_NoWait(t) ==
    /\ pc[t] = "rsync"
    /\ pc' = [pc EXCEPT ![t] = "runlock"]
    /\ UNCHANGED <<quota, freq, solved, devvars, lastCall, arg, err, eff, rxmem,
                   sem, ctx, cs_active, hwvars, forced>>

\* wait_for_sync
ReleaseSync(t) ==
    /\ pc[t] = "rsync"
    /\ ~BSY
    /\ pc' = [pc EXCEPT ![t] = "runlock"]
    /\ UNCHANGED <<quota, freq, solved, devvars, lastCall, arg, err, eff, rxmem,
                   sem, ctx, cs_active, hwvars, forced>>

\* spi_context_unlock_unconditionally: chip-select goes inactive and the
\* semaphore is given if its count is 0; return 0.
ReleaseUnlock(t) ==
    /\ pc[t] = "runlock"
    /\ cs_active' = FALSE
    /\ sem' = 1
    /\ forced' = (forced \/ \E u \in Callers : pc[u] \in HoldingLock)
    /\ pc' = [pc EXCEPT ![t] = "idle"]
    /\ UNCHANGED <<quota, freq, solved, devvars, lastCall, arg, err, eff, rxmem, ctx,
                   hwvars>>

\* The device after spi_lpc17xx_ssp_init: nothing configured, the lock free.
InitDevice ==
    /\ ctx_config = NoConfig
    /\ data_regs = ZeroRegs
    /\ hw = ZeroRegs
    /\ lastCall = NoCall
    /\ InitTransfer

(***************************************************************************)
(* Spec: callers of transceive and release, and the peripheral.  The        *)
(* concurrent callers transmit only; SpecTransfer has the receive side.    *)
(***************************************************************************)
\* The configurations the callers pass: two that are supported and differ in
\* their register image, a slave-mode one and a 16-bit one.
CallConfigs ==
    {c \in AllConfigs :
        /\ c.frequency # SPI_PCLK + 1
        /\ ~c.cpha /\ ~c.loop
        /\ c.cpol = (c.frequency # SPI_PCLK)
        /\ (c.mode = "slave" \/ c.word_size = 16) =>
               (c.frequency = SPI_PCLK /\ ~(c.mode = "slave" /\ c.word_size = 16))}

\* The configurations the concurrent callers of Spec pass: one supported and
\* one slave-mode configuration.
ConcConfigs ==
    {c \in CallConfigs : c.frequency = SPI_PCLK /\ c.word_size = 8}

Init ==
    /\ freq = 0
    /\ solved = ZeroRegs
    /\ quota = [t \in Callers |-> MaxCalls]
    /\ InitDevice

\* The steps of a caller inside transceive or release, after the call.
Step(t) ==
    \/ Lock(t)
    \/ WaitForSync(t)
    \/ FlushRead(t)
    \/ FlushDone(t)
    \/ Configure(t)
    \/ BuffersSetup(t)
    \/ CsAssert(t)
    \/ Enable(t)
    \/ Push(t)
    \/ PullRead(t)
    \/ PullDone(t)
    \/ LoopCheck(t)
    \/ Done(t)
    \/ ReleaseSync(t)
    \/ ReleaseUnlock(t)

Next ==
    \/ \E t \in Callers :
          \/ \E config \in ConcConfigs, tx \in {0, ConcLen} :
                TransceiveCall(t, config, tx, 0)
          \/ ReleaseCall(t)
          \/ Step(t)
    \/ HwStartFrame
    \/ HwEndFrame

Spec == Init /\ [][Next]_vars

(***************************************************************************)
(* SpecTransfer: one caller, one transceive after another.                 *)
(***************************************************************************)
NextTransfer ==
    \/ \E config \in CallConfigs, tx \in 0..MaxLen, rx \in 0..MaxLen :
          TransceiveCall("t1", config, tx, rx)
    \/ ReleaseCall("t1")
    \/ Step("t1")
    \/ HwStartFrame
    \/ HwEndFrame

InitOneCaller ==
    /\ freq = 0
    /\ solved = ZeroRegs
    /\ quota = [t \in Callers |-> NoLimit]
    /\ InitDevice

SpecTransfer == InitOneCaller /\ [][NextTransfer]_vars

\* SpecTransferFair: the calling thread keeps running, and the peripheral,
\* once enabled, keeps shifting: it takes the next queued frame and completes
\* the frame in its shifter.  The call of configure is enabled whenever the
\* thread stands before it, so that the thread keeps running there means
\* that it does not stand there for ever.
StepButConfigure(t) ==
    \/ Lock(t)
    \/ WaitForSync(t)
    \/ FlushRead(t)
    \/ FlushDone(t)
    \/ BuffersSetup(t)
    \/ CsAssert(t)
    \/ Enable(t)
    \/ Push(t)
    \/ PullRead(t)
    \/ PullDone(t)
    \/ LoopCheck(t)
    \/ Done(t)

SpecTransferFair ==
    /\ InitOneCaller
    /\ [][NextTransfer]_vars
    /\ WF_vars(StepButConfigure("t1"))
    /\ []<>(pc["t1"] # "configure")
    /\ WF_vars(HwStartFrame)
    /\ WF_vars(HwEndFrame)

(***************************************************************************)
(* SpecSolver: set_frequency on the probed frequencies.                    *)
(***************************************************************************)
SolverFreqs ==
    {0, 1, SPI_PCLK, SPI_PCLK + 1, 2 * SPI_PCLK,
     SPI_PCLK \div (CPSR_MAX * (SCR_LIMIT - 1)),
     SPI_PCLK \div (CPSR_MAX * (SCR_LIMIT - 1)) - 1,
     SPI_PCLK \div (CPSR_MAX * (SCR_LIMIT - 1)) + 1}
    \cup {SPI_PCLK \div (ProbeStep * k) + e : k \in 1..MaxProbe, e \in -1..1}

InitSolver ==
    /\ freq \in SolverFreqs
    /\ solved = ZeroRegs
    /\ quota = [t \in Callers |-> NoLimit]
    /\ InitDevice

SolveFrequency ==
    /\ solved = ZeroRegs
    /\ solved' = set_frequency(freq, ZeroRegs)
    /\ UNCHANGED <<freq, devvars, lastCall, xfervars>>

NextSolver == SolveFrequency

SpecSolver == InitSolver /\ [][NextSolver]_vars

(***************************************************************************)
(* SpecConfigure: configure called again and again on one device.          *)
(***************************************************************************)
InitConfigure ==
    /\ freq = 0
    /\ solved = ZeroRegs
    /\ quota = [t \in Callers |-> NoLimit]
    /\ InitDevice

ConfigureCall(config) ==
    LET out == spi_lpc17xx_configure(config, ctx_config, data_regs, hw)
    IN  /\ ctx_config' = out.ctx_config
        /\ data_regs' = out.data_regs
        /\ hw' = out.hw
        /\ lastCall' = [config |-> config, err |-> out.err, kind |-> out.kind,
                        writes |-> out.writes,
                        cs_configure |-> out.cs_configure,
                        unconfigured |-> (ctx_config = NoConfig),
                        repeat |-> /\ lastCall.unconfigured
                                   /\ lastCall.err = "0"
                                   /\ lastCall.config = config]
        /\ UNCHANGED <<freq, solved, xfervars>>

\* The enable bit as the transceive around a successful configure sets it.
EnableAfterConfigure ==
    /\ lastCall.kind = "Ok"
    /\ ~SSE
    /\ hw' = [hw EXCEPT !.cr1 = sys_set_bit(@, 1)]
    /\ UNCHANGED <<freq, solved, ctx_config, data_regs, lastCall, xfervars>>

NextConfigure ==
    \/ \E config \in AllConfigs : ConfigureCall(config)
    \/ EnableAfterConfigure

SpecConfigure == InitConfigure /\ [][NextConfigure]_vars

(***************************************************************************)
(* Claims about the clock divisor solver (checked under SpecSolver).       *)
(***************************************************************************)
SolverRan == solved # ZeroRegs

\* The frequency a divisor pair achieves: PCLK / (prescaler * (scr + 1)).
Achieved(i, scr) == SPI_PCLK \div (i * (scr + 1))

EvenPrescalers == {i \in 2..254 : i % 2 = 0}

\* Some pair of the search range satisfies the inequality for freq.
SomePairFits ==
    \E i \in EvenPrescalers, j \in 1..255 : freq >= SPI_PCLK \div (i * j)

C8_FirstPairInOrder ==
    SolverRan =>
        LET i == Prescaler(solved)
            j == SerialClockRate(solved) + 1
        IN  /\ i \in EvenPrescalers
            /\ IF SomePairFits
               THEN /\ j \in 1..255
                    /\ freq >= SPI_PCLK \div (i * j)
                    /\ \A i2 \in {x \in EvenPrescalers : x <= i}, j2 \in 1..255 :
                           (i2 < i \/ j2 < j) => freq < SPI_PCLK \div (i2 * j2)
               ELSE i = 254 /\ j - 1 = 255
            /\ (freq = SPI_PCLK) => (i = 2 /\ j - 1 = 0)
            /\ (freq \in {0, 1}) => (i = 254 /\ j - 1 = 255)

\* C8 witness: both outcomes of the search: here the fallback for f = 0.
C8_Witness ==
    /\ SolverRan
    /\ freq = 0
    /\ ~SomePairFits
    /\ Prescaler(solved) = 254

(***************************************************************************)
(* Claims about configure (checked under SpecConfigure).                   *)
(***************************************************************************)
\* A step of SpecConfigure that is a call of configure with a given argument:
\* the observation of the call is the new value of lastCall.
Called == lastCall'

DeviceUntouched == UNCHANGED <<ctx_config, data_regs, hw>>

\* C4: configure with a word size other than 8 bits fails with
\* UnsupportedWordSize and writes no hardware register; the cached register
\* image and the configuration recorded on the context stay as they were,
\* whatever the polarity, phase, loopback and frequency of the rejected
\* (master-mode) configuration.
C4_WordSizeRejected ==
    [][(Called.config.mode = "master" /\ Called.config.word_size # 8) =>
          /\ Called.err = "-ENOTSUP"
          /\ Called.kind = "UnsupportedWordSize"
          /\ Called.writes = <<>>
          /\ DeviceUntouched]_vars

\* C4 witness: a 16-bit configuration with polarity, phase and loopback set
\* was rejected on a device that had been configured before.
C4_Witness ==
    /\ lastCall.kind = "UnsupportedWordSize"
    /\ lastCall.config.word_size = 16
    /\ lastCall.config.cpol /\ lastCall.config.cpha /\ lastCall.config.loop
    /\ ctx_config # NoConfig

\* C5: configure with a slave-mode configuration fails with the
\* unsupported-mode error without partial setup: no register is written, the
\* cached image and the recorded configuration are unchanged, chip-select is
\* not reconfigured; the mode check comes before the word-size check.
C5_SlaveRejected ==
    [][(Called.config.mode = "slave") =>
          /\ Called.err = "-ENOTSUP"
          /\ Called.kind = "UnsupportedMode"
          /\ Called.writes = <<>>
          /\ ~Called.cs_configure
          /\ DeviceUntouched]_vars

\* C5 witness: a slave configuration that also asks for 16-bit words was
\* rejected for its mode on a device that had been configured before.
C5_Witness ==
    /\ lastCall.kind = "UnsupportedMode"
    /\ lastCall.config.mode = "slave"
    /\ lastCall.config.word_size = 16
    /\ ctx_config # NoConfig

Supported(config) == config.mode = "master" /\ config.word_size = 8

\* C6: from an unconfigured device, configure called twice in a row with the
\* same supported configuration writes control0, control1 and prescale
\* exactly once each in the first call and nothing in the second; both calls
\* succeed.
C6_ConfigureIdempotent ==
    /\ (lastCall.unconfigured /\ Supported(lastCall.config)) =>
           /\ lastCall.err = "0"
           /\ lastCall.writes = <<"cr0", "cr1", "cpsr">>
    /\ lastCall.repeat =>
           /\ lastCall.err = "0"
           /\ lastCall.writes = <<>>

\* C6 witness: the second of the two calls has returned.
C6_Witness ==
    /\ lastCall.repeat
    /\ Supported(lastCall.config)
    /\ ctx_config = lastCall.config

(***************************************************************************)
(* Claims about the lock (C1 under SpecTransfer, C2 under Spec).           *)
(***************************************************************************)
\* The transceive calls inside their locked section.
InLockedSection == {t \in Callers : pc[t] \in HoldingLock}

\* C1: every transceive call that has acquired the lock has released it when
\* it returns, after the push/pull loop and after a failed configuration
\* alike: whenever every call has returned, the lock is free.
C1_LockFreeAfterReturn ==
    (\A t \in Callers : pc[t] = "idle") => sem = 1

\* C1 witness: a call whose configuration was rejected has returned, with the
\* lock free.
C1_Witness ==
    /\ pc["t1"] = "idle"
    /\ err["t1"] = "-ENOTSUP"
    /\ sem = 1

\* C2 as stated: in every interleaving of callers of transceive and release,
\* at most one transceive call is inside its locked section.
C2_MutualExclusion == Cardinality(InLockedSection) <= 1

\* C2 amended: as long as no release has given the lock while a transceive
\* call held it, at most one transceive call is inside its locked section and
\* the lock is taken while one is.
C2_MutualExclusionUnlessForced ==
    ~forced =>
        /\ Cardinality(InLockedSection) <= 1
        /\ InLockedSection # {} => sem = 0

\* C2 witness: one caller is in the push/pull loop and the other waits for the
\* lock, no release having forced it.
C2_Witness ==
    /\ ~forced
    /\ pc["t1"] = "push"
    /\ pc["t2"] = "lock"
    /\ sem = 0

(***************************************************************************)
(* Claims about one transceive call (checked under SpecTransfer).          *)
(***************************************************************************)
\* C3: when configure fails inside transceive, transceive returns that error
\* and transfers nothing: the call never reaches the cursor setup, the
\* chip-select, the enable bit or the push/pull loop, and at its return it has
\* written no byte to the data register.
C3_NothingTransferredOnConfigError ==
    \A t \in Callers :
        (pc[t] \in HoldingLock /\ ~Supported(arg[t].config)) =>
            /\ pc[t] \in {"sync", "flush", "configure", "done"}
            /\ eff.writes = 0 /\ eff.reads = 0
            /\ ~eff.setup /\ ~eff.cs /\ ~eff.sse
            /\ pc[t] = "done" => err[t] = "-ENOTSUP"

\* C3 witness: a call with a 16-bit configuration is about to return its
\* error on a device that an earlier call had enabled.
C3_Witness ==
    /\ pc["t1"] = "done"
    /\ arg["t1"].config.word_size = 16
    /\ err["t1"] = "-ENOTSUP"
    /\ SSE

Max(a, b) == IF a >= b THEN a ELSE b

\* A transceive call that got past configure is about to return.
Completed(t) == pc[t] = "done" /\ err[t] = "0"

\* C9 as stated: for every transceive that completes, whatever the timing of
\* the hardware, the number of bytes push_data wrote to the data register
\* equals the number pull_data read from the receive FIFO, and both equal the
\* longer of the transmit and receive lengths.
C9_OneToOneCount ==
    \A t \in Callers :
        Completed(t) =>
            /\ eff.writes = eff.reads
            /\ eff.writes = Max(arg[t].tx, arg[t].rx)

\* The bytes of the transmit buffer of length n, in transmit order.
TxBuffer(n) == [k \in 1..n |-> TxByte(k)]

\* C10 as stated: a transceive with transmit and receive buffers of the same
\* length N, against hardware that echoes every transmitted byte in order,
\* leaves in the receive buffer exactly the N transmitted bytes in transmit
\* order, for every interleaving of hardware shifting with push and pull.
C10_RoundTrip ==
    \A t \in Callers :
        (Completed(t) /\ arg[t].tx = arg[t].rx /\ arg[t].tx > 0) =>
            rxmem[t] = TxBuffer(arg[t].tx)

\* The counts of one call stay below the cap of the counters.
CountsBelowCap == eff.writes < CountCap /\ eff.reads < CountCap

\* The round trip for lengths the receive FIFO can hold in full.
RoundTripWithinFifo ==
    \A t \in Callers :
        (Completed(t) /\ arg[t].tx = arg[t].rx /\ arg[t].tx \in 1..FIFO_DEPTH) =>
            rxmem[t] = TxBuffer(arg[t].tx)

(***************************************************************************)
(* Claims about the push/pull loop (checked under SpecTransfer).           *)
(***************************************************************************)
\* A step of caller t that is one call of push_data.
PushStep(t) == pc[t] = "push" /\ pc'[t] = "pull"

\* C11: a push step that runs with the RX-FIFO-full bit set, or with the
\* TX-FIFO-not-full bit clear, writes nothing to the data register and does
\* not advance the transmit cursor.
C11_Backpressure ==
    [][\A t \in Callers :
          (PushStep(t) /\ (RFF \/ ~TNF)) =>
              /\ txfifo' = txfifo
              /\ ctx' = ctx
              /\ eff'.writes = eff.writes]_vars

\* C11 witness: the last push step of a call with bytes left to send was held
\* back by the RX-FIFO-full bit.
C11_Witness ==
    /\ pc["t1"] = "pull"
    /\ eff.held = "RFF"
    /\ spi_context_tx_on(ctx)

\* The positions of the push/pull loop.
InLoop == {"push", "pull", "check"}

\* C12 as stated: while a call is in the push/pull loop, whatever the
\* interleaving of driver steps and hardware shifting, no received frame is
\* lost to a full RX FIFO: the overrun flag does not rise.
C12_NoOverrunInLoop ==
    [][(\E t \in Callers : pc[t] \in InLoop) => (ror' = ror)]_vars

\* The frames inside the peripheral: queued, being shifted, or received and
\* not yet read.
FramesInside == Len(txfifo) + Len(shifter) + Len(rxfifo)

\* C13: stale data never leaks into a new transfer: when a call is past
\* rx_buffer_flush and has not pushed yet, the TX FIFO, the shifter and the RX
\* FIFO are empty, whatever an earlier transfer left in them; from then on
\* the frames inside the peripheral and the frames the call has read are
\* frames the call itself has written, and each byte stored in the receive
\* buffer is one of the bytes the call writes.
C13_NoStaleData ==
    \A t \in Callers :
        /\ pc[t] \in {"configure", "setup", "cs", "enable"} => FramesInside = 0
        /\ (pc[t] \in InLoop \/ Completed(t)) =>
               /\ FramesInside + eff.reads <= eff.writes
               /\ \A k \in 1..Len(rxmem[t]) :
                      rxmem[t][k] \in {Unwritten, 0} \cup
                                     {TxByte(j) : j \in 1..arg[t].tx}

\* C13 witness: a call whose rx_buffer_flush discarded frames an earlier
\* transfer had left has stored a received byte.
C13_Witness ==
    /\ pc["t1"] \in InLoop
    /\ eff.flushed
    /\ Len(rxmem["t1"]) > 0
    /\ rxmem["t1"][1] # Unwritten

(***************************************************************************)
(* Claims about release (checked under SpecTransfer).                      *)
(***************************************************************************)
\* C14: release unlocks only after it has read the busy flag as 0: a release
\* call leaves wait_for_sync only in a step that finds the busy flag clear,
\* that step neither gives the lock nor touches chip-select, the call unlocks
\* and returns only from the position after wait_for_sync, and so while the
\* busy flag stays set it neither unlocks nor returns.
C14_ReleaseWaitsForIdle ==
    [][\A t \in Callers :
          /\ (pc[t] = "rsync" /\ pc'[t] # "rsync") =>
                 /\ ~BSY
                 /\ pc'[t] = "runlock"
                 /\ UNCHANGED <<sem, cs_active>>
          /\ (pc[t] = "rsync" /\ pc'[t] = "rsync") =>
                 UNCHANGED <<sem, cs_active>>
          /\ (pc[t] # "runlock" /\ pc'[t] = "runlock") => pc[t] = "rsync"
          /\ (pc[t] = "runlock" /\ pc'[t] # "runlock") =>
                 pc'[t] = "idle" /\ sem' = 1]_vars

\* C14 witness: a release call is waiting in wait_for_sync with the busy flag
\* set, frames of the last transfer still queued, and has not unlocked.
C14_Witness ==
    /\ pc["t1"] = "rsync"
    /\ BSY
    /\ txfifo # <<>>
    /\ cs_active

(***************************************************************************)
(* Claims about transfers with one side absent (SpecTransfer).             *)
(***************************************************************************)
\* The values of the frames inside the peripheral.
FrameValues ==
    {txfifo[k] : k \in 1..Len(txfifo)} \cup {shifter[k] : k \in 1..Len(shifter)}
        \cup {rxfifo[k] : k \in 1..Len(rxfifo)}

\* The side that is absent is left alone: a call without receive buffer
\* stores nothing, and every frame a call without transmit buffer writes
\* is 0.
AbsentSideUntouched ==
    \A t \in Callers :
        (pc[t] \in InLoop \/ Completed(t)) =>
            /\ arg[t].rx = 0 => rxmem[t] = <<>>
            /\ arg[t].tx = 0 =>
                   /\ FrameValues \subseteq {0}
                   /\ \A k \in 1..Len(rxmem[t]) : rxmem[t][k] \in {Unwritten, 0}

\* C15 as stated: a transceive without receive buffer returns success and
\* stores no received byte, having read and discarded the bytes clocked in
\* for the bytes it sent; a transceive without transmit buffer returns
\* success, and every byte it wrote to the data register is 0.
C15_AbsentSide ==
    \A t \in Callers :
        (pc[t] = "done" /\ Supported(arg[t].config)) =>
            /\ err[t] = "0"
            /\ (arg[t].tx > 0 /\ arg[t].rx = 0) =>
                   /\ rxmem[t] = <<>>
                   /\ eff.reads = eff.writes
            /\ (arg[t].tx = 0 /\ arg[t].rx > 0) =>
                   /\ FrameValues \subseteq {0}
                   /\ \A k \in 1..Len(rxmem[t]) : rxmem[t][k] = 0

(***************************************************************************)
(* Termination (checked under SpecTransferFair).                           *)
(***************************************************************************)
\* C16: with the hardware and the calling thread making progress, every
\* transceive call with a supported configuration returns, and it is at its
\* return only when neither the transmit nor the receive cursor has work
\* left.
C16_Terminates ==
    /\ [](\A t \in Callers :
             Completed(t) =>
                 ~spi_context_tx_on(ctx) /\ ~spi_context_rx_on(ctx))
    /\ (pc["t1"] = "lock" /\ Supported(arg["t1"].config)) ~>
           (pc["t1"] = "idle")

\* C16 witness: a call with the longest buffers on both sides is at its
\* return although a received frame was lost to an overrun on the way.
C16_Witness ==
    /\ Completed("t1")
    /\ arg["t1"].tx = MaxLen
    /\ arg["t1"].rx = MaxLen
    /\ ror

(***************************************************************************)
(* Claims about what the loop writes and stores (SpecTransfer).            *)
(***************************************************************************)
\* C17 as stated: a push step writes to the data register only while the
\* transmit or the receive stream has work left, the byte written being the
\* next transmit byte while the transmit stream is not exhausted and 0
\* otherwise; a transceive with both streams empty writes nothing.
C17_PushOnlyWithWork ==
    [][\A t \in Callers :
          (PushStep(t) /\ txfifo' # txfifo) =>
              /\ spi_context_tx_on(ctx) \/ spi_context_rx_on(ctx)
              /\ txfifo' = Append(txfifo, IF spi_context_tx_on(ctx)
                                          THEN TxByte(ctx.tx_buf) ELSE 0)]_vars

\* Every push step but the first of a call finds work left on one side, and
\* what a push step writes is the next transmit byte or else 0.
PushAfterFirstHasWork ==
    [][\A t \in Callers :
          (PushStep(t) /\ txfifo' # txfifo) =>
              /\ (eff.writes > 0 \/ arg[t].tx > 0 \/ arg[t].rx > 0) =>
                     (spi_context_tx_on(ctx) \/ spi_context_rx_on(ctx))
              /\ txfifo' = Append(txfifo, IF spi_context_tx_on(ctx)
                                          THEN TxByte(ctx.tx_buf) ELSE 0)]_vars

(***************************************************************************)
(* Setup ordering (SpecTransfer).                                          *)
(***************************************************************************)
\* The position a call is in before it comes to each position of its setup.
SetupPredecessor ==
    [sync |-> "lock", flush |-> "sync", configure |-> "flush",
     setup |-> "configure", cs |-> "setup", enable |-> "cs"]

\* What each step of the setup has done when the call moves on.
SetupStepDone(t) ==
    /\ (pc[t] = "lock" /\ pc'[t] # "lock") => (sem = 1 /\ sem' = 0)
    /\ (pc[t] = "sync" /\ pc'[t] # "sync") => ~BSY
    /\ (pc[t] = "flush" /\ pc'[t] # "flush") => ~RNE
    /\ (pc[t] = "configure" /\ pc'[t] # "configure") =>
           IF pc'[t] = "setup"
           THEN err'[t] = "0" /\ ctx_config' = arg[t].config
           ELSE pc'[t] = "done" /\ err'[t] # "0"
    /\ (pc[t] = "setup" /\ pc'[t] # "setup") =>
           ctx' = spi_context_buffers_setup(t, arg[t].tx, arg[t].rx)
    /\ (pc[t] = "cs" /\ pc'[t] # "cs") => cs_active'
    /\ (pc[t] = "enable" /\ pc'[t] # "enable") => sys_test_bit(hw'.cr1, 1)

\* C18: in a successful transceive the first write to the data register
\* comes only after, in this order, the lock was taken, the busy flag read
\* clear, the RX FIFO drained, the configuration applied, the cursors
\* installed, chip-select asserted and the enable bit set: each position of
\* the setup is entered from the one before it only, each step has done its
\* work when the call moves on, a byte is queued by a push step only, and a
\* call in the loop still holds what the setup established.
C18_SetupOrder ==
    /\ [][\A t \in Callers :
             /\ (pc'[t] # pc[t] /\ pc'[t] \in DOMAIN SetupPredecessor) =>
                    pc[t] = SetupPredecessor[pc'[t]]
             /\ (pc'[t] = "push" /\ pc[t] # "push") =>
                    pc[t] \in {"enable", "check"}
             /\ SetupStepDone(t)
             /\ Len(txfifo') > Len(txfifo) => \E u \in Callers : PushStep(u)]_vars
    /\ [](\A t \in Callers :
             pc[t] \in InLoop =>
                 /\ sem = 0
                 /\ ctx_config = arg[t].config
                 /\ hw.cr0 = data_regs.cr0 /\ hw.cpsr = data_regs.cpsr
                 /\ eff.setup /\ eff.cs /\ eff.sse
                 /\ cs_active
                 /\ SSE
                 /\ (pc[t] = "push" /\ eff.writes = 0) => FramesInside = 0)

\* C18 witness: the first byte of a call has been written, after a setup in
\* which rx_buffer_flush discarded frames of an earlier transfer.
C18_Witness ==
    /\ pc["t1"] = "pull"
    /\ eff.writes = 1
    /\ eff.flushed
    /\ txfifo # <<>>

(***************************************************************************)
(* Cache and hardware registers (SpecConfigure).                           *)
(***************************************************************************)
\* C19: after any sequence of successful and failed configure calls, the
\* hardware control0 and prescale registers equal the cached image, hardware
\* control1 equals the cached control1 except possibly for the enable bit,
\* and the cached image is the translation of the configuration recorded on
\* the context.
C19_CacheMatchesHardware ==
    /\ hw.cr0 = data_regs.cr0
    /\ hw.cpsr = data_regs.cpsr
    /\ sys_clear_bit(hw.cr1, 1) = sys_clear_bit(data_regs.cr1, 1)
    /\ ctx_config # NoConfig => data_regs = BuildImage(ctx_config)
    /\ ctx_config = NoConfig => data_regs = ZeroRegs

\* C19 witness: a configure call recorded a configuration whose image equals
\* the cached one, so it wrote no register, and the enable bit set before it
\* is still set in the hardware and not in the cache.
C19_Witness ==
    /\ lastCall.kind = "Ok"
    /\ lastCall.cs_configure
    /\ lastCall.writes = <<>>
    /\ ctx_config = lastCall.config
    /\ SSE
    /\ ~sys_test_bit(data_regs.cr1, 1)

(***************************************************************************)
(* Buffer bounds (SpecTransfer).                                           *)
(***************************************************************************)
\* A step of caller t that is one read of the data register by pull_data.
PullStep(t) ==
    pc[t] = "pull" /\ pc'[t] = "pull" /\ RNE /\ rxfifo' = Tail(rxfifo)

\* C20: the pull step stores a received byte only while the receive stream
\* has length left: the i-th byte read is stored as the i-th byte of the
\* receive buffer while i is within the receive length and is discarded
\* after, nothing is stored outside the buffer, and the cursors that push and
\* pull read and write memory through stay inside the buffers.
C20_BufferBounds ==
    /\ [][\A t \in Callers :
             PullStep(t) =>
                 IF eff.reads < arg[t].rx
                 THEN rxmem' = [rxmem EXCEPT ![t][eff.reads + 1] = Head(rxfifo)]
                 ELSE rxmem' = rxmem]_vars
    /\ [](\A t \in Callers :
             (pc[t] \in InLoop \/ Completed(t)) =>
                 /\ Len(rxmem[t]) = arg[t].rx
                 /\ \A k \in 1..arg[t].rx :
                        (rxmem[t][k] # Unwritten) <=> (k <= eff.reads)
                 /\ spi_context_tx_buf_on(ctx) =>
                        ctx.tx_buf = arg[t].tx - ctx.tx_len + 1
                 /\ spi_context_rx_buf_on(ctx) =>
                        ctx.rx_buf = arg[t].rx - ctx.rx_len + 1)

\* C20 witness: a call with three bytes to send and one to receive has read
\* more bytes than its receive buffer holds and stored the first only.
C20_Witness ==
    /\ Completed("t1")
    /\ arg["t1"].tx = MaxLen
    /\ arg["t1"].rx = 1
    /\ eff.reads >= 2
    /\ rxmem["t1"] = <<TxByte(1)>>

====
